---- MODULE Spec2Model ----
(***************************************************************************)
(* State-machine model of rvBPM's server: the OAuth 2.0 authorization-code *)
(* + PKCE flow with the verifier and the token kept in the express session *)
(* (src/server.js, lines 213-540), and the paginated playlist fetch        *)
(* getAllPlaylistTracks.                                                   *)
(*                                                                         *)
(* A handler runs atomically between two awaits (Node's event loop), so    *)
(* every handler is one action per synchronous stretch: <Handler>Start up  *)
(* to its first await, <Handler>Response from the resolution of the await  *)
(* to the response.  Requests of different sessions interleave at the      *)
(* awaits; each session has at most one request in flight.                 *)
(***************************************************************************)
EXTENDS Integers, Sequences, FiniteSets, TLC

\* ------------------------------------------------------------------ bounds
NumVerifiers == 2     \* distinct outputs of the random source of /login
NumTokens == 2        \* distinct access tokens the token endpoint returns
NumCodes == 1         \* distinct authorization codes a callback may carry
MaxPages == 3         \* pages in the paged API's chain
MaxPageSize == 2      \* items on one page
MaxNameLen == 3       \* characters of a sampled playlist name
SeedLen == 3          \* bytes of the pattern a sampled byte buffer repeats
MaxCalls == 2         \* calls of generateCodeChallenge on one verifier

\* ------------------------------------------------------------ value domains
\* JavaScript's undefined (an unset session field, a missing body field)
\* and null (req.query.code || null): both falsy.
undefined == 0
null == 0

\* Two browser sessions, the ids of their session cookies: the least number
\* in which one session can observe what another one did.
Sessions == {"sessionA", "sessionB"}
Verifiers == 1..NumVerifiers
Tokens == 1..NumTokens
Codes == {null} \cup (1..NumCodes)

\* Truthiness of a string-or-undefined value, as in if (!x) / while (x).
Truthy(x) == x # 0

VARIABLES
  session,        \* the session store: session id -> SessionState
  spotifyToken,   \* the process-wide variable written by /callback
  req,            \* per session: the request in flight or the last one handled
  issued,         \* the authorization server: code -> the grant it stands for
  pages,          \* the paged API: the chain of pages of the playlist's tracks
  fetch,          \* the activation of getAllPlaylistTracks
  call,           \* the activation of a helper function run on its own
  sha256          \* the SHA-256 digests computed so far: data -> digest

serverVars == <<session, spotifyToken, req, issued>>
fetchVars == <<pages, fetch>>
helperVars == <<call, sha256>>
vars == <<session, spotifyToken, req, issued, pages, fetch, call, sha256>>

\* ---------------------------------------------------------------- responses
NoResponse ==
  [status |-> 0, location |-> "", body |-> "", response_type |-> "",
   code_challenge_method |-> "", code_challenge |-> <<>>]

\* res.redirect(path): 302 Found with a Location header, no error detail.
Redirect(path) == [NoResponse EXCEPT !.status = 302, !.location = path]

\* res.send(text): 200 with the text as body.
Send(text) == [NoResponse EXCEPT !.status = 200, !.body = text]

\* generateCodeChallenge: base64url(sha256(verifier)), padding stripped.  On
\* the abstract verifiers of this specification the hash is a collision-free
\* tagging of its argument.
generateCodeChallenge(verifier) == <<"S256", verifier>>

\* The redirect of /login: authUrl with its response_type,
\* code_challenge_method and code_challenge parameters.
AuthorizeRedirect(codeChallenge) ==
  [NoResponse EXCEPT !.status = 302,
                     !.location = "https://accounts.spotify.com/authorize",
                     !.response_type = "code",
                     !.code_challenge_method = "S256",
                     !.code_challenge = codeChallenge]

\* ----------------------------------------------------------------- requests
\* getAllPlaylistTracks before any call of it.
FetchIdle ==
  [pc |-> "idle", accessToken |-> undefined, tracks |-> <<>>, nextURL |-> null,
   requests |-> <<>>, inFlight |-> {}, received |-> <<>>,
   result |-> <<>>, error |-> "", failedURL |-> null]

Idle ==
  [route |-> "", pc |-> "idle", code |-> null, codeVerifier |-> undefined,
   preToken |-> undefined, calls |-> <<>>, outcome |-> "", returned |-> undefined,
   error |-> "", fetch |-> FetchIdle, res |-> NoResponse]

\* A session may send its next request once the last one has been answered.
CanRequest(s) == req[s].pc \in {"idle", "done"}

\* Mutant: the exchange request carries no code_verifier.
TokenCall_NoVerifier(code, codeVerifier) ==
  [kind |-> "token", code |-> code, code_verifier |-> undefined, bearer |-> undefined]

\* The outbound POST to the token endpoint.
TokenCall(code, codeVerifier) ==
  [kind |-> "token", code |-> code, code_verifier |-> codeVerifier, bearer |-> undefined]

\* The outbound GET of the playlist, with its bearer token.
PlaylistCall(bearer) ==
  [kind |-> "playlist", code |-> null, code_verifier |-> undefined, bearer |-> bearer]

\* A code the authorization server has not issued.
NotIssued == [session |-> "", code_challenge |-> <<>>]

\* The server after start-up: empty session store, no request handled, no
\* authorization code issued.
InitServer ==
  /\ session = [s \in Sessions |-> [codeVerifier |-> undefined, accessToken |-> undefined]]
  /\ spotifyToken = undefined
  /\ req = [s \in Sessions |-> Idle]
  /\ issued = [code \in Codes \ {null} |-> NotIssued]

\* No helper function run on its own.
NoCall == [fn |-> "", pc |-> "idle", arg |-> <<>>, hash |-> <<>>, ret |-> <<>>, returns |-> <<>>]

InitHelpers ==
  /\ call = NoCall
  /\ sha256 = <<>>

Init ==
  /\ InitServer
  /\ pages = <<>>
  /\ fetch = FetchIdle
  /\ InitHelpers

\* ------------------------------------------------------------------- /login
\* Mutant: the challenge is derived from a second draw of the random source.
Login_ChallengeOfOtherVerifier(s) ==
  /\ CanRequest(s)
  /\ \E codeVerifier \in Verifiers, other \in Verifiers :
       /\ session' = [session EXCEPT ![s].codeVerifier = codeVerifier]
       /\ req' = [req EXCEPT ![s] =
            [Idle EXCEPT !.route = "/login", !.pc = "done",
                         !.preToken = session[s].accessToken,
                         !.res = AuthorizeRedirect(generateCodeChallenge(other))]]
  /\ UNCHANGED <<spotifyToken, issued, fetchVars, helperVars>>

\* Mutant: a verifier already stored is kept.
Login_KeepsFirstVerifier(s) ==
  /\ CanRequest(s)
  /\ \E codeVerifier \in Verifiers :
       /\ session' = [session EXCEPT ![s].codeVerifier =
                        IF Truthy(@) THEN @ ELSE codeVerifier]
       /\ req' = [req EXCEPT ![s] =
            [Idle EXCEPT !.route = "/login", !.pc = "done",
                         !.preToken = session[s].accessToken,
                         !.res = AuthorizeRedirect(generateCodeChallenge(codeVerifier))]]
  /\ UNCHANGED <<spotifyToken, issued, fetchVars, helperVars>>

\* app.get('/login'): a fresh verifier into the session, redirect to the
\* authorization server with the derived challenge; no outbound request.
Login(s) ==
  /\ CanRequest(s)
  /\ \E codeVerifier \in Verifiers :
       /\ session' = [session EXCEPT ![s].codeVerifier = codeVerifier]
       /\ req' = [req EXCEPT ![s] =
            [Idle EXCEPT !.route = "/login", !.pc = "done",
                         !.preToken = session[s].accessToken,
                         !.res = AuthorizeRedirect(generateCodeChallenge(codeVerifier))]]
  /\ UNCHANGED <<spotifyToken, issued, fetchVars, helperVars>>

\* ---------------------------------------------------------------- /callback
\* Mutant: the exchange is attempted whatever the session holds.
MissingVerifier_Never(codeVerifier) == FALSE

\* if (!codeVerifier): the guard of the token exchange.
MissingVerifier(codeVerifier) == ~Truthy(codeVerifier)

\* Mutant: the exchange submits a verifier generated anew in the callback.
CallbackStart_FreshVerifier(s) ==
  /\ CanRequest(s)
  /\ \E code \in Codes, fresh \in Verifiers :
       LET codeVerifier == session[s].codeVerifier IN
       IF MissingVerifier(codeVerifier)
       THEN req' = [req EXCEPT ![s] =
              [Idle EXCEPT !.route = "/callback", !.pc = "done",
                           !.code = code, !.codeVerifier = codeVerifier,
                           !.preToken = session[s].accessToken,
                           !.res = Redirect("/login")]]
       ELSE req' = [req EXCEPT ![s] =
              [Idle EXCEPT !.route = "/callback", !.pc = "awaitToken",
                           !.code = code, !.codeVerifier = codeVerifier,
                           !.preToken = session[s].accessToken,
                           !.calls = <<TokenCall(code, fresh)>>]]
  /\ UNCHANGED <<session, spotifyToken, issued, fetchVars, helperVars>>

\* app.get('/callback') up to the await of axios.post.
CallbackStart(s) ==
  /\ CanRequest(s)
  /\ \E code \in Codes :
       LET codeVerifier == session[s].codeVerifier IN
       IF MissingVerifier(codeVerifier)
       THEN req' = [req EXCEPT ![s] =
              [Idle EXCEPT !.route = "/callback", !.pc = "done",
                           !.code = code, !.codeVerifier = codeVerifier,
                           !.preToken = session[s].accessToken,
                           !.res = Redirect("/login")]]
       ELSE req' = [req EXCEPT ![s] =
              [Idle EXCEPT !.route = "/callback", !.pc = "awaitToken",
                           !.code = code, !.codeVerifier = codeVerifier,
                           !.preToken = session[s].accessToken,
                           !.calls = <<TokenCall(code, codeVerifier)>>]]
  /\ UNCHANGED <<session, spotifyToken, issued, fetchVars, helperVars>>

\* Mutant: the token goes to the process-wide variable only.
CallbackSuccess_GlobalOnly(s, access_token) ==
  /\ spotifyToken' = access_token
  /\ req' = [req EXCEPT ![s].pc = "done", ![s].outcome = "2xx",
                        ![s].returned = access_token,
                        ![s].res = Redirect("/playlist-details")]
  /\ UNCHANGED <<session, issued, fetchVars, helperVars>>

\* The try block after the await: a 2xx response whose body carries
\* access_token (undefined when the body has no such field).
CallbackSuccess(s, access_token) ==
  /\ session' = [session EXCEPT ![s].accessToken = access_token]
  /\ spotifyToken' = access_token
  /\ req' = [req EXCEPT ![s].pc = "done", ![s].outcome = "2xx",
                        ![s].returned = access_token,
                        ![s].res = Redirect("/playlist-details")]
  /\ UNCHANGED <<issued, fetchVars, helperVars>>

\* Mutant: a failed exchange logs the session out.
CallbackFailure_ClearsToken(s) ==
  /\ session' = [session EXCEPT ![s].accessToken = undefined]
  /\ req' = [req EXCEPT ![s].pc = "done", ![s].outcome = "error",
                        ![s].error = "AxiosError",
                        ![s].res = Redirect("/login")]
  /\ UNCHANGED <<spotifyToken, issued, fetchVars, helperVars>>

\* The catch block: the request failed or the status was not 2xx.
CallbackFailure(s) ==
  /\ req' = [req EXCEPT ![s].pc = "done", ![s].outcome = "error",
                        ![s].error = "AxiosError",
                        ![s].res = Redirect("/login")]
  /\ UNCHANGED <<session, spotifyToken, issued, fetchVars, helperVars>>

\* app.get('/callback') from the resolution of the token request on.
CallbackResponse(s) ==
  /\ req[s].pc = "awaitToken"
  /\ \/ \E access_token \in Tokens \cup {undefined} : CallbackSuccess(s, access_token)
     \/ CallbackFailure(s)

\* -------------------------------------------------------- /playlist-details
PlaylistRoutes == {"/playlist-details", "/playlist-details/csv"}

\* Mutant: the guard reads the process-wide token.
NotAuthenticated_Global(s) == ~Truthy(spotifyToken)

\* if (!req.session.accessToken) return res.redirect('/login');
NotAuthenticated(s) == ~Truthy(session[s].accessToken)

\* Both handlers up to the await of the playlist request, which carries the
\* session's token as bearer.
PlaylistStart(s, route) ==
  /\ CanRequest(s)
  /\ IF NotAuthenticated(s)
     THEN req' = [req EXCEPT ![s] =
            [Idle EXCEPT !.route = route, !.pc = "done",
                         !.preToken = session[s].accessToken,
                         !.res = Redirect("/login")]]
     ELSE req' = [req EXCEPT ![s] =
            [Idle EXCEPT !.route = route, !.pc = "awaitPlaylist",
                         !.preToken = session[s].accessToken,
                         !.calls = <<PlaylistCall(session[s].accessToken)>>]]
  /\ UNCHANGED <<session, spotifyToken, issued, fetchVars, helperVars>>

\* Mutant: the catch block logs the session out, whatever was thrown.
PlaylistCatch_ClearsToken(s, outcome, error) ==
  /\ session' = [session EXCEPT ![s].accessToken = undefined]
  /\ req' = [req EXCEPT ![s].pc = "done", ![s].outcome = outcome,
                        ![s].error = error,
                        ![s].res = Send("Error fetching playlist details")]
  /\ UNCHANGED <<spotifyToken, issued, fetchVars, helperVars>>

\* The catch block of both handlers, whatever was thrown:
\* res.send('Error fetching playlist details').
PlaylistCatch(s, outcome, error) ==
  /\ req' = [req EXCEPT ![s].pc = "done", ![s].outcome = outcome,
                        ![s].error = error,
                        ![s].res = Send("Error fetching playlist details")]
  /\ UNCHANGED <<session, spotifyToken, issued, fetchVars, helperVars>>

\* Statuses of a failed downstream request.
FailureStatuses == {"401", "500"}

\* Both handlers from the resolution of the playlist request on.  After a
\* 2xx the handler evaluates the arguments of
\* getAllPlaylistTracks(playlistId, accessToken): accessToken is declared
\* neither in the handler nor at module scope, the evaluation throws a
\* ReferenceError before the call and the catch block answers.
PlaylistResponse(s) ==
  /\ req[s].pc = "awaitPlaylist"
  /\ \/ PlaylistCatch(s, "2xx", "ReferenceError")
     \/ \E status \in FailureStatuses : PlaylistCatch(s, status, "AxiosError")

PlaylistDetails(s) == PlaylistStart(s, "/playlist-details")

PlaylistDetailsCsv(s) == PlaylistStart(s, "/playlist-details/csv")

Next ==
  \E s \in Sessions :
    \/ Login(s)
    \/ CallbackStart(s)
    \/ CallbackResponse(s)
    \/ PlaylistDetails(s)
    \/ PlaylistDetailsCsv(s)
    \/ PlaylistResponse(s)

Spec == Init /\ [][Next]_vars

\* ---------------------------------------------------- authorization server
\* The browser follows the redirect of /login; the user consents and the
\* authorization server issues a code, not issued before, for the
\* code_challenge the redirect carried.
Authorize(s) ==
  /\ req[s].route = "/login" /\ req[s].pc = "done"
  /\ \E code \in Codes \ {null} :
       /\ issued[code] = NotIssued
       /\ issued' = [issued EXCEPT ![code] =
            [session |-> s, code_challenge |-> req[s].res.code_challenge]]
  /\ UNCHANGED <<session, spotifyToken, req, fetchVars, helperVars>>

\* The session whose authorization-code flow SpecAuth follows.
FlowSession == "sessionA"

NextAuth ==
  \/ Login(FlowSession)
  \/ Authorize(FlowSession)
  \/ CallbackStart(FlowSession)
  \/ CallbackResponse(FlowSession)

\* The authorization-code flow of one session on its own: its /login
\* requests, the authorization server's grants, its /callback requests, in
\* any order.
SpecAuth == Init /\ [][NextAuth]_vars

\* ----------------------------------------------------- getAllPlaylistTracks
\* The paged API.  A page address is the page's position in the chain; the
\* address of the playlist's tracks endpoint is that of the first page.  The
\* items of the playlist are distinct entries, named by page and position.
PageItems(p, size) == [j \in 1..size |-> <<p, j>>]

Chains ==
  UNION { { [p \in 1..n |-> PageItems(p, sizes[p])] :
              sizes \in [1..n -> 0..MaxPageSize] } : n \in 1..MaxPages }

FirstURL == 1

\* response.data of a successful page request: the page's items and the
\* pointer to the next page, null on the last page.
ResponseData(url) ==
  [items |-> pages[url], next |-> IF url < Len(pages) THEN url + 1 ELSE null]

\* Mutant: the new page goes in front of the tracks fetched so far.
Concat_Prepend(tracks, items) == items \o tracks

\* tracks.concat(response.data.items)
Concat(tracks, items) == tracks \o items

\* Mutant: the loop also requests the page it expects to follow, without
\* waiting for the response that names it.
LoopHead_Prefetch(f) ==
  IF Truthy(f.nextURL)
  THEN [f EXCEPT !.pc = "await",
                 !.requests = @ \o <<[url |-> f.nextURL, bearer |-> f.accessToken],
                                     [url |-> f.nextURL + 1, bearer |-> f.accessToken]>>,
                 !.inFlight = @ \cup {f.nextURL, f.nextURL + 1}]
  ELSE [f EXCEPT !.pc = "returned", !.result = <<f.tracks>>]

\* Evaluation of while (nextURL) with its body up to the await, and of
\* return tracks once the pointer is falsy: the next page request is issued
\* with the bearer token, or the call returns.
LoopHead(f) ==
  IF Truthy(f.nextURL)
  THEN [f EXCEPT !.pc = "await",
                 !.requests = Append(@, [url |-> f.nextURL, bearer |-> f.accessToken]),
                 !.inFlight = @ \cup {f.nextURL}]
  ELSE [f EXCEPT !.pc = "returned", !.result = <<f.tracks>>]

\* getAllPlaylistTracks(playlistId, accessToken) up to its first await.
GetAllPlaylistTracks ==
  /\ fetch.pc = "called"
  /\ fetch' = LoopHead([fetch EXCEPT !.tracks = <<>>, !.nextURL = FirstURL])
  /\ UNCHANGED <<serverVars, pages, helperVars>>

\* Mutant: the next pointer of the response is not followed.
PageSuccess_DropsNext(f, data) ==
  LoopHead([f EXCEPT !.tracks = Concat(f.tracks, data.items), !.nextURL = null,
                     !.inFlight = @ \ {f.nextURL},
                     !.received = Append(@, data)])

\* The rest of the loop body after a successful page request, then the loop
\* head again.
PageSuccess(f, data) ==
  LoopHead([f EXCEPT !.tracks = Concat(f.tracks, data.items), !.nextURL = data.next,
                     !.inFlight = @ \ {f.nextURL},
                     !.received = Append(@, data)])

\* Mutant: the error is swallowed and the tracks fetched so far are returned.
PageFailure_ReturnsPartial(f, status) ==
  [f EXCEPT !.pc = "returned", !.result = <<f.tracks>>,
            !.inFlight = @ \ {f.nextURL},
            !.error = status, !.failedURL = f.nextURL]

\* Mutant: a failed page request is issued once more.
PageFailure_Retry(f, status) ==
  [f EXCEPT !.pc = "await",
            !.requests = Append(@, [url |-> f.nextURL, bearer |-> f.accessToken]),
            !.error = status, !.failedURL = f.nextURL]

\* A failed page request: axios rejects, the await throws, and nothing in
\* the function catches it: the call ends with the error, without a value.
PageFailure(f, status) ==
  [f EXCEPT !.pc = "thrown", !.inFlight = @ \ {f.nextURL},
            !.error = status, !.failedURL = f.nextURL]

\* The resolution of the page request in flight.
PageResponse ==
  /\ fetch.pc = "await"
  /\ \/ fetch' = PageSuccess(fetch, ResponseData(fetch.nextURL))
     \/ \E status \in FailureStatuses : fetch' = PageFailure(fetch, status)
  /\ UNCHANGED <<serverVars, pages, helperVars>>

\* A call of getAllPlaylistTracks with any token, against any chain of pages.
InitFetch ==
  /\ InitServer
  /\ InitHelpers
  /\ pages \in Chains
  /\ \E accessToken \in Tokens :
       fetch = [FetchIdle EXCEPT !.pc = "called", !.accessToken = accessToken]

NextFetch == GetAllPlaylistTracks \/ PageResponse

SpecFetch == InitFetch /\ [][NextFetch]_vars

\* The same call when the event loop runs the function's continuations and
\* every page request is answered, with a page or with a failure.
SpecFetchFair == SpecFetch /\ WF_vars(NextFetch)

\* The PKCE server's handlers and getAllPlaylistTracks, each run on its own:
\* a behaviour is one of Spec or one of SpecFetch.
InitEither == Init \/ InitFetch

NextEither ==
  \/ fetch.pc = "idle" /\ Next
  \/ NextFetch

SpecEither == InitEither /\ [][NextEither]_vars

\* ------------------------------------------- legacy client-secret variant
\* The variant that authenticates the token exchange with the client secret.
\* It keeps no session: the token lives in the module-level spotifyToken,
\* '' after start-up.  req[s] is the request of browser s.
LegacyTokenCall(code) ==
  [kind |-> "token", code |-> code, code_verifier |-> undefined, bearer |-> undefined]

\* app.get('/login'): a redirect to the authorization server, no challenge.
LegacyAuthorizeRedirect ==
  [NoResponse EXCEPT !.status = 302,
                     !.location = "https://accounts.spotify.com/authorize",
                     !.response_type = "code"]

LegacyLogin(s) ==
  /\ CanRequest(s)
  /\ req' = [req EXCEPT ![s] =
       [Idle EXCEPT !.route = "/login", !.pc = "done", !.preToken = spotifyToken,
                    !.res = LegacyAuthorizeRedirect]]
  /\ UNCHANGED <<session, spotifyToken, issued, fetchVars, helperVars>>

\* app.get('/callback') up to the await of axios.post: the exchange is
\* requested whatever the server holds.
LegacyCallbackStart(s) ==
  /\ CanRequest(s)
  /\ \E code \in Codes :
       req' = [req EXCEPT ![s] =
         [Idle EXCEPT !.route = "/callback", !.pc = "awaitToken", !.code = code,
                      !.preToken = spotifyToken,
                      !.calls = <<LegacyTokenCall(code)>>]]
  /\ UNCHANGED <<session, spotifyToken, issued, fetchVars, helperVars>>

\* The try block after the await.
LegacyCallbackSuccess(s, access_token) ==
  /\ spotifyToken' = access_token
  /\ req' = [req EXCEPT ![s].pc = "done", ![s].outcome = "2xx",
                        ![s].returned = access_token,
                        ![s].res = Redirect("/playlist-details")]
  /\ UNCHANGED <<session, issued, fetchVars, helperVars>>

\* The catch block: res.send('Error retrieving access token').
LegacyCallbackFailure(s) ==
  /\ req' = [req EXCEPT ![s].pc = "done", ![s].outcome = "error",
                        ![s].error = "AxiosError",
                        ![s].res = Send("Error retrieving access token")]
  /\ UNCHANGED <<session, spotifyToken, issued, fetchVars, helperVars>>

LegacyCallbackResponse(s) ==
  /\ req[s].pc = "awaitToken"
  /\ \/ \E access_token \in Tokens \cup {undefined} : LegacyCallbackSuccess(s, access_token)
     \/ LegacyCallbackFailure(s)

\* Both playlist handlers up to the await of the playlist request:
\* const accessToken = spotifyToken, sent as bearer without a test.
LegacyPlaylistStart(s, route) ==
  /\ CanRequest(s)
  /\ req' = [req EXCEPT ![s] =
       [Idle EXCEPT !.route = route, !.pc = "awaitPlaylist",
                    !.preToken = spotifyToken,
                    !.calls = <<PlaylistCall(spotifyToken)>>]]
  /\ UNCHANGED <<session, spotifyToken, issued, fetchVars, helperVars>>

\* The catch block of both playlist handlers.
LegacyPlaylistCatch(r, outcome, error) ==
  [r EXCEPT !.pc = "done", !.outcome = outcome, !.error = error,
            !.res = Send("Error fetching playlist details")]

\* The end of the try block: res.format(...) of /playlist-details, or the
\* attachment of /playlist-details/csv.
LegacyRender(r) ==
  [r EXCEPT !.pc = "done", !.outcome = "2xx",
            !.res = Send(IF r.route = "/playlist-details/csv"
                         THEN "text/csv" ELSE "Playlist Name")]

\* The handler after a step of its call of getAllPlaylistTracks: suspended
\* on a page request, past the call with the tracks, or in the catch block.
LegacyAfterFetch(r) ==
  CASE r.fetch.pc = "await" -> [r EXCEPT !.pc = "awaitPage"]
    [] r.fetch.pc = "returned" -> LegacyRender(r)
    [] r.fetch.pc = "thrown" -> LegacyPlaylistCatch(r, r.fetch.error, "AxiosError")

\* Both playlist handlers from the resolution of the playlist request on: a
\* 2xx leads into getAllPlaylistTracks(playlistId, accessToken), up to its
\* first await.
LegacyPlaylistResponse(s) ==
  /\ req[s].pc = "awaitPlaylist"
  /\ \/ req' = [req EXCEPT ![s] = LegacyAfterFetch(
                 [req[s] EXCEPT !.fetch = LoopHead(
                    [FetchIdle EXCEPT !.accessToken = req[s].preToken,
                                      !.nextURL = FirstURL])])]
     \/ \E status \in FailureStatuses :
          req' = [req EXCEPT ![s] = LegacyPlaylistCatch(req[s], status, "AxiosError")]
  /\ UNCHANGED <<session, spotifyToken, issued, fetchVars, helperVars>>

\* Both playlist handlers from the resolution of a page request on.
LegacyPageResponse(s) ==
  /\ req[s].pc = "awaitPage"
  /\ \/ req' = [req EXCEPT ![s] = LegacyAfterFetch(
                 [req[s] EXCEPT !.fetch =
                    PageSuccess(req[s].fetch, ResponseData(req[s].fetch.nextURL))])]
     \/ \E status \in FailureStatuses :
          req' = [req EXCEPT ![s] = LegacyAfterFetch(
                 [req[s] EXCEPT !.fetch = PageFailure(req[s].fetch, status)])]
  /\ UNCHANGED <<session, spotifyToken, issued, fetchVars, helperVars>>

LegacyPlaylistDetails(s) == LegacyPlaylistStart(s, "/playlist-details")

LegacyPlaylistDetailsCsv(s) == LegacyPlaylistStart(s, "/playlist-details/csv")

\* The legacy server after start-up, in front of any chain of pages.
InitLegacy ==
  /\ InitServer
  /\ InitHelpers
  /\ pages \in Chains
  /\ fetch = FetchIdle

NextLegacy ==
  \/ LegacyLogin(FlowSession)
  \/ LegacyCallbackStart(FlowSession)
  \/ LegacyCallbackResponse(FlowSession)
  \/ LegacyPlaylistDetails(FlowSession)
  \/ LegacyPlaylistDetailsCsv(FlowSession)
  \/ LegacyPlaylistResponse(FlowSession)
  \/ LegacyPageResponse(FlowSession)

SpecLegacy == InitLegacy /\ [][NextLegacy]_vars

\* ------------------------------------------------------------------ strings
\* A string is the sequence of its characters.
UpperCase ==
  <<"A", "B", "C", "D", "E", "F", "G", "H", "I", "J", "K", "L", "M",
    "N", "O", "P", "Q", "R", "S", "T", "U", "V", "W", "X", "Y", "Z">>

LowerCase ==
  <<"a", "b", "c", "d", "e", "f", "g", "h", "i", "j", "k", "l", "m",
    "n", "o", "p", "q", "r", "s", "t", "u", "v", "w", "x", "y", "z">>

Digits == <<"0", "1", "2", "3", "4", "5", "6", "7", "8", "9">>

Range(seq) == { seq[i] : i \in DOMAIN seq }

\* The strings of at most n characters over a set of characters.
StringsUpTo(chars, n) == UNION { [1..k -> chars] : k \in 0..n }

RECURSIVE Flatten(_)
Flatten(parts) ==
  IF parts = <<>> THEN <<>> ELSE Head(parts) \o Flatten(Tail(parts))

\* A regular expression of one character class, plain or negated, and
\* whether it matches a character.
CharClass(chars) == [negated |-> FALSE, class |-> chars]

NegatedCharClass(chars) == [negated |-> TRUE, class |-> chars]

Matches(pattern, c) == (c \in pattern.class) # pattern.negated

\* String.prototype.replace with a global one-character pattern: every
\* character the pattern matches is replaced, one by one, by the replacement.
replace(str, pattern, replacement) ==
  Flatten([i \in DOMAIN str |->
             IF Matches(pattern, str[i]) THEN replacement ELSE <<str[i]>>])

\* String.prototype.toLowerCase on the characters the model tells apart.
toLowerCase(str) ==
  [i \in DOMAIN str |->
     IF str[i] \in Range(UpperCase)
     THEN LowerCase[CHOOSE k \in DOMAIN UpperCase : UpperCase[k] = str[i]]
     ELSE str[i]]

\* --------------------------------------------------- CSV attachment filename
\* /[^a-z0-9]/gi: a character that is neither an ASCII letter nor a digit.
NonAlphanumeric ==
  NegatedCharClass(Range(LowerCase) \cup Range(UpperCase) \cup Range(Digits))

\* playlistName.replace(/[^a-z0-9]/gi, '_').toLowerCase()
sanitizedPlaylistName(playlistName) ==
  toLowerCase(replace(playlistName, NonAlphanumeric, <<"_">>))

\* res.attachment(`${sanitizedPlaylistName}.csv`): the filename.
attachment(playlistName) ==
  sanitizedPlaylistName(playlistName) \o <<".", "c", "s", "v">>

\* "Workout Mix #1!"
WorkoutMix ==
  <<"W", "o", "r", "k", "o", "u", "t", " ", "M", "i", "x", " ", "#", "1", "!">>

\* The characters of the sampled display names.
NameChars == {"M", "x", "1", " ", "#", "!", "_", "."}

PlaylistNames == StringsUpTo(NameChars, MaxNameLen) \cup {WorkoutMix}

\* The CSV handler from the playlist's name to the attachment header.
Attachment ==
  /\ call.fn = "attachment" /\ call.pc = "called"
  /\ call' = [call EXCEPT !.pc = "returned", !.ret = attachment(call.arg)]
  /\ UNCHANGED <<serverVars, fetchVars, sha256>>

\* The filename derivation on any sampled display name.
InitFilename ==
  /\ InitServer
  /\ pages = <<>>
  /\ fetch = FetchIdle
  /\ sha256 = <<>>
  /\ \E playlistName \in PlaylistNames :
       call = [NoCall EXCEPT !.fn = "attachment", !.pc = "called", !.arg = playlistName]

NextFilename == Attachment

SpecFilename == InitFilename /\ [][NextFilename]_vars

\* ------------------------------------------------------ generateCodeVerifier
\* const length = 64
length == 64

\* The bytes of the sampled buffers: with them base64 yields letters, digits,
\* '+' and '/'.
SampleBytes == {0, 105, 190, 239, 251, 255}

\* The buffer of n bytes that repeats a pattern.
Repeat(seed, n) == [i \in 1..n |-> seed[((i - 1) % Len(seed)) + 1]]

\* The sampled outputs of crypto.randomBytes(n).
RandomBuffers(n) == { Repeat(seed, n) : seed \in [1..SeedLen -> SampleBytes] }

Base64Alphabet == UpperCase \o LowerCase \o Digits \o <<"+", "/">>

\* The base64 character of a 6-bit value.
Base64Char(sextet) == Base64Alphabet[sextet + 1]

\* The four characters of a group of three bytes.
Base64Group(b1, b2, b3) ==
  <<Base64Char(b1 \div 4),
    Base64Char((b1 % 4) * 16 + b2 \div 16),
    Base64Char((b2 % 16) * 4 + b3 \div 64),
    Base64Char(b3 % 64)>>

\* Buffer.prototype.toString('base64'): groups of three bytes, the last
\* group of one or two bytes padded with '='.
base64(bytes) ==
  LET full == Len(bytes) \div 3
      rest == Len(bytes) % 3
      last == Len(bytes)
  IN  Flatten([k \in 1..full |->
                 Base64Group(bytes[3 * k - 2], bytes[3 * k - 1], bytes[3 * k])])
      \o (CASE rest = 0 -> <<>>
            [] rest = 1 -> <<Base64Char(bytes[last] \div 4),
                             Base64Char((bytes[last] % 4) * 16), "=", "=">>
            [] rest = 2 -> <<Base64Char(bytes[last - 1] \div 4),
                             Base64Char((bytes[last - 1] % 4) * 16 + bytes[last] \div 16),
                             Base64Char((bytes[last] % 16) * 4), "=">>)

\* /\+/g, /\//g and /=/g
Plus == CharClass({"+"})

Slash == CharClass({"/"})

Equals == CharClass({"="})

\* String.prototype.slice(0, end)
slice(str, end) == SubSeq(str, 1, IF Len(str) < end THEN Len(str) ELSE end)

\* Mutant: '/' is left in place.
generateCodeVerifier_KeepsSlash(randomBytes) ==
  slice(replace(replace(base64(randomBytes), Plus, <<"-">>), Equals, <<>>), length)

\* generateCodeVerifier() on the buffer crypto.randomBytes(length) returned.
generateCodeVerifier(randomBytes) ==
  slice(replace(replace(replace(base64(randomBytes),
                                Plus, <<"-">>), Slash, <<"_">>), Equals, <<>>),
        length)

GenerateCodeVerifier ==
  /\ call.fn = "generateCodeVerifier" /\ call.pc = "called"
  /\ call' = [call EXCEPT !.pc = "returned", !.ret = generateCodeVerifier(call.arg)]
  /\ UNCHANGED <<serverVars, fetchVars, sha256>>

\* A call of generateCodeVerifier, for any sampled output of the random
\* source.
InitVerifier ==
  /\ InitServer
  /\ pages = <<>>
  /\ fetch = FetchIdle
  /\ sha256 = <<>>
  /\ \E randomBytes \in RandomBuffers(length) :
       call = [NoCall EXCEPT !.fn = "generateCodeVerifier", !.pc = "called",
                             !.arg = randomBytes]

NextVerifier == GenerateCodeVerifier

SpecVerifier == InitVerifier /\ [][NextVerifier]_vars

\* ----------------------------------------------------- generateCodeChallenge
\* Bytes of a SHA-256 digest.
DigestLength == 32

\* The sampled digests: all bits clear, all bits set, one whose base64 is all
\* '+', and a mixed one.
Digests ==
  { Repeat(seed, DigestLength) :
      seed \in {<<0>>, <<255>>, <<251, 239, 190>>, <<105, 183, 29, 255>>} }

\* The sampled arguments: the empty string, a one-character string and the
\* verifiers generateCodeVerifier returns.
ChallengeInputs ==
  {<<>>, <<"a">>} \cup { generateCodeVerifier(b) : b \in RandomBuffers(length) }

\* Mutant: one hash object, created at module load, takes the updates of
\* every call.
HashInput_SharedHash(previous, verifier) == previous \o verifier

\* crypto.createHash('sha256').update(verifier): the data the digest is
\* taken of, given the data of the previous call's hash object.  Each call
\* creates its own object.
HashInput(previous, verifier) == verifier

\* .digest('base64').replace(/\+/g, '-').replace(/\//g, '_').replace(/=/g, '')
encodeDigest(digest) ==
  replace(replace(replace(base64(digest), Plus, <<"-">>), Slash, <<"_">>),
          Equals, <<>>)

\* One call of generateCodeChallenge(verifier).  SHA-256 is a function whose
\* values the model does not compute: the digest of data hashed for the
\* first time is any sampled digest, and is the same from then on.
GenerateCodeChallenge ==
  /\ call.fn = "generateCodeChallenge"
  /\ Len(call.returns) < MaxCalls
  /\ LET data == HashInput(call.hash, call.arg) IN
     \E digest \in Digests :
       /\ data \in DOMAIN sha256 => digest = sha256[data]
       /\ sha256' = IF data \in DOMAIN sha256 THEN sha256
                                               ELSE sha256 @@ (data :> digest)
       /\ call' = [call EXCEPT !.pc = "returned", !.hash = data,
                               !.ret = encodeDigest(digest),
                               !.returns = Append(@, encodeDigest(digest))]
  /\ UNCHANGED <<serverVars, fetchVars>>

\* Calls of generateCodeChallenge on any sampled argument.
InitChallenge ==
  /\ InitServer
  /\ pages = <<>>
  /\ fetch = FetchIdle
  /\ sha256 = <<>>
  /\ \E verifier \in ChallengeInputs :
       call = [NoCall EXCEPT !.fn = "generateCodeChallenge", !.pc = "called",
                             !.arg = verifier]

NextChallenge == GenerateCodeChallenge

SpecChallenge == InitChallenge /\ [][NextChallenge]_vars

\* =================================================================== claims
OtherSession(s) == CHOOSE o \in Sessions : o # s

\* The outbound requests a request has issued, by kind.
CallsOfKind(r, kind) == { i \in 1..Len(r.calls) : r.calls[i].kind = kind }

\* C1: a /callback handled for a session that holds no codeVerifier answers
\* with a redirect to /login and issues no token-exchange request, whatever
\* code it carries.
C1_NoVerifierNoExchange ==
  \A s \in Sessions :
    (req[s].route = "/callback" /\ ~Truthy(session[s].codeVerifier))
      => /\ req[s].pc = "done"
         /\ req[s].res = Redirect("/login")
         /\ CallsOfKind(req[s], "token") = {}

C1_Witness ==
  \E s \in Sessions :
    /\ req[s].route = "/callback" /\ req[s].pc = "done"
    /\ ~Truthy(session[s].codeVerifier)
    /\ req[s].code # null
    /\ req[s].res.location = "/login"

\* C2: a request to /playlist-details or /playlist-details/csv of a session
\* without accessToken answers with a redirect to /login and issues no
\* downstream request, whatever happened before in any session.
C2_UnauthenticatedShortCircuit ==
  \A s \in Sessions :
    (req[s].route \in PlaylistRoutes /\ ~Truthy(req[s].preToken))
      => /\ req[s].pc = "done"
         /\ req[s].res = Redirect("/login")
         /\ req[s].calls = <<>>

C2_Witness ==
  \E s \in Sessions :
    /\ req[s].route = "/playlist-details/csv" /\ req[s].pc = "done"
    /\ ~Truthy(req[s].preToken)
    /\ Truthy(session[s].codeVerifier)
    /\ Truthy(session[OtherSession(s)].accessToken)
    /\ req[s].res.location = "/login"

\* C3: when /callback finds a verifier and the token exchange succeeds, the
\* session's accessToken is the token that exchange returned and the
\* response is a redirect to /playlist-details.
C3_SuccessStoresToken ==
  \A s \in Sessions :
    (req[s].route = "/callback" /\ req[s].outcome = "2xx")
      => /\ Truthy(req[s].codeVerifier)
         /\ req[s].pc = "done"
         /\ session[s].accessToken = req[s].returned
         /\ req[s].res = Redirect("/playlist-details")

C3_Witness ==
  \E s \in Sessions :
    /\ req[s].route = "/callback" /\ req[s].outcome = "2xx"
    /\ Truthy(req[s].returned)
    /\ Truthy(req[s].preToken) /\ req[s].preToken # req[s].returned
    /\ session[s].accessToken = req[s].returned

\* C4: when /callback finds a verifier and the token exchange fails, the
\* response is a redirect to /login without a body and the session's
\* accessToken is what it was before the request.
C4_FailureKeepsToken ==
  \A s \in Sessions :
    (req[s].route = "/callback" /\ req[s].outcome = "error")
      => /\ req[s].pc = "done"
         /\ req[s].res.status = 302 /\ req[s].res.location = "/login"
         /\ req[s].res.body = ""
         /\ session[s].accessToken = req[s].preToken

C4_Witness ==
  \E s \in Sessions :
    /\ req[s].route = "/callback" /\ req[s].outcome = "error"
    /\ Len(req[s].calls) = 1
    /\ Truthy(req[s].preToken)
    /\ session[s].accessToken = req[s].preToken
    /\ req[s].res.location = "/login"

\* C5: a protected-resource request whose downstream call fails with 401
\* answers with a redirect to /login and clears the session's accessToken.
\* (The catch block answers 'Error fetching playlist details' and leaves the
\* token in place.)
C5_UnauthorizedDemotes ==
  \A s \in Sessions :
    (req[s].route \in PlaylistRoutes /\ req[s].outcome = "401")
      => /\ req[s].res = Redirect("/login")
         /\ ~Truthy(session[s].accessToken)

\* C6: a session's accessToken is set only by the step of a /callback of
\* that session which read a non-empty codeVerifier from the session and
\* submitted it in the token exchange that returned the token.
C6_TokenOnlyFromVerifiedExchange ==
  /\ \A s \in Sessions : ~Truthy(session[s].accessToken)
  /\ [][\A s \in Sessions :
          (Truthy(session'[s].accessToken)
             /\ session'[s].accessToken # session[s].accessToken)
            => /\ req[s].route = "/callback" /\ req[s].pc = "awaitToken"
               /\ Truthy(session[s].codeVerifier)
               /\ req[s].codeVerifier = session[s].codeVerifier
               /\ Len(req[s].calls) = 1
               /\ req[s].calls[1].kind = "token"
               /\ req[s].calls[1].code_verifier = session[s].codeVerifier
               /\ req'[s].outcome = "2xx"
               /\ req'[s].returned = session'[s].accessToken]_vars

C6_Witness ==
  \E s \in Sessions :
    /\ Truthy(session[s].accessToken)
    /\ req[s].route = "/callback" /\ req[s].pc = "done"
    /\ req[s].calls[1].code_verifier = session[s].codeVerifier
    /\ Truthy(session[OtherSession(s)].codeVerifier)
    /\ session[OtherSession(s)].codeVerifier # session[s].codeVerifier
    /\ ~Truthy(session[OtherSession(s)].accessToken)

\* C7: once /callback has handled a request with a token exchange, whether
\* it succeeded or failed, the session's codeVerifier is absent.  (No line
\* of the handler removes the verifier from the session.)
C7_VerifierConsumedOnce ==
  \A s \in Sessions :
    (req[s].route = "/callback" /\ req[s].pc = "done"
       /\ CallsOfKind(req[s], "token") # {})
      => ~Truthy(session[s].codeVerifier)

\* C8: no process-wide variable holds an access token, and the bearer of
\* every downstream call of a session is that session's own token.  (The
\* callback copies the token into spotifyToken.)
C8_TokenOnlyInSession ==
  /\ ~Truthy(spotifyToken)
  /\ \A s \in Sessions :
       \A i \in CallsOfKind(req[s], "playlist") :
         req[s].calls[i].bearer = req[s].preToken

\* The items of a chain of pages in the order the server serves them.
RECURSIVE ItemsUpTo(_, _)
ItemsUpTo(chain, n) ==
  IF n = 0 THEN <<>>
  ELSE LET before == ItemsUpTo(chain, n - 1) IN
       [k \in 1..(Len(before) + Len(chain[n])) |->
          IF k <= Len(before) THEN before[k] ELSE chain[n][k - Len(before)]]

\* C9: for every finite chain of pages getAllPlaylistTracks returns exactly
\* the items of page 1 in order, then those of page 2, and so on: nothing
\* dropped, duplicated or reordered.
C9_ReturnsAllItemsInOrder ==
  fetch.pc = "returned" => fetch.result = <<ItemsUpTo(pages, Len(pages))>>

C9_Witness ==
  /\ fetch.pc = "returned"
  /\ Len(pages) = 3
  /\ Len(pages[1]) = 2 /\ Len(pages[2]) = 2 /\ Len(pages[3]) = 1
  /\ Len(fetch.result[1]) = 5

\* C10: when a page request fails, the call ends with the error thrown to
\* the caller and without a return value, and the failing request is the
\* last page request it issued.
C10_FailurePropagates ==
  fetch.error # ""
    => /\ fetch.pc = "thrown"
       /\ fetch.result = <<>>
       /\ Len(fetch.requests) = fetch.failedURL
       /\ \A k \in 1..Len(fetch.requests) : fetch.requests[k].url = k

C10_Witness ==
  /\ fetch.pc = "thrown" /\ fetch.error = "500"
  /\ fetch.failedURL = 2 /\ Len(pages) = 3
  /\ Len(fetch.tracks) = 2
  /\ fetch.result = <<>>

\* C11: within one call of getAllPlaylistTracks at most one page request is
\* in flight, the request for page N+1 is issued only after the response of
\* page N has been received, and its address is the next pointer that
\* response carried; the first request goes to the tracks endpoint.
C11_SequentialPageRequests ==
  /\ Cardinality(fetch.inFlight) <= 1
  /\ Len(fetch.requests) <= Len(fetch.received) + 1
  /\ \A k \in 1..Len(fetch.requests) :
       fetch.requests[k].url =
         IF k = 1 THEN FirstURL ELSE fetch.received[k - 1].next

C11_Witness ==
  /\ fetch.pc = "await"
  /\ Len(fetch.requests) = 3 /\ Len(fetch.received) = 2
  /\ fetch.inFlight = {fetch.received[2].next}
  /\ fetch.requests[3].url = 3

\* C12: every /login stores a generated verifier in the requesting session
\* and answers with a redirect to the authorization server whose
\* code_challenge is the challenge of the verifier now stored, with
\* code_challenge_method S256 and response_type code; it issues no outbound
\* request.
C12_LoginRedirectCarriesChallenge ==
  \A s \in Sessions :
    req[s].route = "/login"
      => /\ req[s].pc = "done"
         /\ session[s].codeVerifier \in Verifiers
         /\ req[s].res.status = 302
         /\ req[s].res.location = "https://accounts.spotify.com/authorize"
         /\ req[s].res.code_challenge = generateCodeChallenge(session[s].codeVerifier)
         /\ req[s].res.code_challenge_method = "S256"
         /\ req[s].res.response_type = "code"
         /\ req[s].calls = <<>>

C12_Witness ==
  \E s \in Sessions :
    /\ req[s].route = "/login" /\ req[s].pc = "done"
    /\ req[s].res.code_challenge = generateCodeChallenge(session[s].codeVerifier)
    /\ Truthy(session[OtherSession(s)].codeVerifier)
    /\ session[OtherSession(s)].codeVerifier # session[s].codeVerifier

\* The token-exchange requests of session s whose code the authorization
\* server issued to s.
OwnCodeExchanges(s) ==
  { i \in CallsOfKind(req[s], "token") :
      /\ req[s].calls[i].code # null
      /\ issued[req[s].calls[i].code].session = s }

\* C13 as claimed: the code_verifier of every token exchange is the original
\* verifier of the code exchanged, the one whose challenge the /login
\* redirect that produced the code carried, for every sequence of /login and
\* /callback of one session.  (A second /login overwrites the verifier, so
\* a callback with the first login's code submits the second verifier.)
C13_SubmitsOriginalVerifier ==
  \A s \in Sessions :
    \A i \in OwnCodeExchanges(s) :
      generateCodeChallenge(req[s].calls[i].code_verifier)
        = issued[req[s].calls[i].code].code_challenge

\* C13 as amended: the code_verifier of every token exchange is the verifier
\* the session holds, the one stored by its most recent /login.
C13_SubmitsStoredVerifier ==
  \A s \in Sessions :
    \A i \in CallsOfKind(req[s], "token") :
      /\ Truthy(req[s].calls[i].code_verifier)
      /\ req[s].calls[i].code_verifier = session[s].codeVerifier

C13_Witness ==
  \E s \in Sessions :
    \E i \in OwnCodeExchanges(s) :
      /\ req[s].calls[i].code_verifier = session[s].codeVerifier
      /\ generateCodeChallenge(req[s].calls[i].code_verifier)
           # issued[req[s].calls[i].code].code_challenge

\* C14: once a session's accessToken is present it becomes absent only in
\* the step that handles a downstream call failing with 401; no /login, no
\* /callback whatever its outcome, and no other protected-resource outcome
\* takes a session from token-present to token-absent.  (A 2xx token
\* response without access_token makes /callback overwrite the token with
\* undefined.)
C14_OnlyUnauthorizedClearsToken ==
  [][\A s \in Sessions :
       (Truthy(session[s].accessToken) /\ ~Truthy(session'[s].accessToken))
         => (req[s].route \in PlaylistRoutes /\ req'[s].outcome = "401")]_vars

\* C15: a protected-resource request whose downstream call fails with a
\* status other than 401 ends with an HTTP 500 response carrying a generic
\* message, and the session's accessToken is unchanged.  (The catch block
\* answers with res.send, status 200.)
C15_OtherFailureIs500 ==
  \A s \in Sessions :
    (req[s].route \in PlaylistRoutes /\ req[s].outcome = "500")
      => /\ req[s].res.status = 500
         /\ req[s].res.body = "Error fetching playlist details"
         /\ session[s].accessToken = req[s].preToken

\* C16: the legacy client-secret variant follows the state machine of the PKCE
\* variant: a successful exchange in /callback redirects to the playlist view,
\* a failed exchange redirects to /login, and a playlist request made while
\* no access token has been obtained redirects to /login without a downstream
\* call.
C16_LegacySameStateMachine ==
  \A s \in Sessions :
    /\ (req[s].route = "/callback" /\ req[s].outcome = "2xx")
         => req[s].res = Redirect("/playlist-details")
    /\ (req[s].route = "/callback" /\ req[s].outcome = "error")
         => req[s].res = Redirect("/login")
    /\ (req[s].route \in PlaylistRoutes /\ ~Truthy(req[s].preToken))
         => (req[s].res = Redirect("/login") /\ req[s].calls = <<>>)

\* C17: no upstream request is retried.  A /callback request issues at most
\* one token request, a playlist request at most one playlist request, and a
\* call of getAllPlaylistTracks requests each page address at most once; the
\* first failed upstream request ends the handler with a redirect or an error
\* message, and ends getAllPlaylistTracks with the error thrown and no
\* request after the failed one.
C17_NoRetry ==
  /\ \A s \in Sessions :
       /\ Len(req[s].calls) <= 1
       /\ req[s].route = "/callback" => CallsOfKind(req[s], "playlist") = {}
       /\ req[s].route \in PlaylistRoutes => CallsOfKind(req[s], "token") = {}
       /\ req[s].outcome \in {"error"} \cup FailureStatuses
            => /\ req[s].pc = "done"
               /\ Len(req[s].calls) = 1
               /\ req[s].res \in {Redirect("/login"),
                                   Send("Error fetching playlist details")}
  /\ \A i, j \in 1..Len(fetch.requests) :
       fetch.requests[i].url = fetch.requests[j].url => i = j
  /\ fetch.error # ""
       => /\ fetch.pc = "thrown"
          /\ fetch.inFlight = {}
          /\ fetch.requests[Len(fetch.requests)].url = fetch.failedURL
          /\ Len(fetch.requests) = Len(fetch.received) + 1

C17_Witness ==
  /\ fetch.pc = "thrown"
  /\ fetch.error = "500"
  /\ Len(fetch.requests) = 2
  /\ fetch.failedURL = 2
  /\ Len(fetch.received) = 1

\* C18: the CSV attachment filename is the playlist's display name with the
\* non-alphanumeric characters replaced and lowercased: only characters of
\* [a-z0-9_] before the .csv suffix, and for "Workout Mix #1!" the filename
\* workout_mix_1_.csv.
C18_CsvFilename ==
  (call.fn = "attachment" /\ call.pc = "returned")
    => LET n == Len(call.ret) - 4 IN
       /\ n >= 0
       /\ SubSeq(call.ret, n + 1, n + 4) = <<".", "c", "s", "v">>
       /\ \A i \in 1..n :
            call.ret[i] \in Range(LowerCase) \cup Range(Digits) \cup {"_"}
       /\ call.arg = WorkoutMix
            => call.ret = <<"w", "o", "r", "k", "o", "u", "t", "_", "m", "i", "x",
                            "_", "1", "_", ".", "c", "s", "v">>

\* C19: every value generateCodeVerifier returns, whatever the random source
\* gave, has length exactly 64 and only characters of [A-Za-z0-9-._~]; it
\* contains none of '+', '/' and '='.
C19_VerifierShape ==
  (call.fn = "generateCodeVerifier" /\ call.pc = "returned")
    => /\ Len(call.ret) = 64
       /\ \A i \in DOMAIN call.ret :
            /\ call.ret[i] \in Range(UpperCase) \cup Range(LowerCase) \cup Range(Digits)
                                \cup {"-", ".", "_", "~"}
            /\ call.ret[i] \notin {"+", "/", "="}

C19_Witness ==
  /\ call.fn = "generateCodeVerifier" /\ call.pc = "returned"
  /\ {"+", "/", "="} \subseteq Range(base64(call.arg))
  /\ {"-", "_"} \subseteq Range(call.ret)
  /\ Len(base64(call.arg)) = 88

\* C20: generateCodeChallenge is a deterministic function of its argument
\* without side effects: every call on a verifier returns what the earlier
\* calls on it returned, a call changes nothing of the server's state, and
\* the challenge contains none of '+', '/' and '='.
C20_ChallengeDeterministic ==
  [][(call'.fn = "generateCodeChallenge" /\ call'.pc = "returned")
       => /\ call'.arg = call.arg
          /\ \A i \in DOMAIN call'.returns : call'.returns[i] = call'.ret
          /\ \A k \in DOMAIN call'.ret : call'.ret[k] \notin {"+", "/", "="}
          /\ UNCHANGED <<serverVars, fetchVars>>]_vars

C20_Witness ==
  /\ call.fn = "generateCodeChallenge" /\ call.pc = "returned"
  /\ Len(call.arg) = 64
  /\ Len(call.returns) = 2
  /\ call.returns[1] = call.returns[2]
  /\ {"+", "="} \subseteq Range(base64(sha256[call.arg]))
  /\ "-" \in Range(call.ret)
  /\ Len(call.ret) = 43

\* C21: generateCodeChallenge rejects an empty or undersized verifier (fewer
\* than the 43 characters a code verifier has at least) with an error instead
\* of returning a challenge, and returns a challenge for every other verifier.
C21_RejectsUndersizedVerifier ==
  (call.fn = "generateCodeChallenge" /\ call.pc # "called")
    => IF Len(call.arg) < 43
       THEN call.pc = "thrown" /\ call.returns = <<>>
       ELSE call.pc = "returned" /\ call.ret # <<>>

\* C22: in the PKCE variant an authenticated playlist request whose upstream
\* requests all succeed is answered with the rendered playlist, after page
\* requests carrying the session's token, never with the
\* 'Error fetching playlist details' response.
C22_SuccessRendersPlaylist ==
  \A s \in Sessions :
    (req[s].route \in PlaylistRoutes /\ Truthy(req[s].preToken)
       /\ req[s].pc = "done" /\ req[s].outcome = "2xx")
      => /\ req[s].error = ""
         /\ req[s].res # Send("Error fetching playlist details")

\* C23: getAllPlaylistTracks terminates.  A call against a chain of n pages
\* whose page requests all succeed eventually returns, having issued exactly
\* n page requests, the first to the playlist's tracks endpoint, the last to
\* the page whose next pointer is null.
C23_ReturnsAfterAllPages ==
  (fetch.pc = "called")
    ~> \/ fetch.error # ""
       \/ /\ fetch.pc = "returned"
          /\ Len(fetch.requests) = Len(pages)
          /\ fetch.requests[1].url = FirstURL
          /\ fetch.received[Len(pages)].next = null
          /\ \A k \in 1..(Len(pages) - 1) : fetch.received[k].next # null
          /\ fetch.inFlight = {}

C23_Witness ==
  /\ fetch.pc = "returned"
  /\ fetch.error = ""
  /\ Len(pages) = 3
  /\ Len(fetch.requests) = 3
  /\ fetch.requests[3].url = 3
  /\ fetch.received[3].next = null

\* C24: SessionState is written by /login and /callback only.  A step of a
\* playlist request whose outcome is not a downstream 401 leaves the
\* codeVerifier and accessToken of every session unchanged, and a step of a
\* request of one session leaves every other session's state unchanged.
C24_SessionStateFrame ==
  [][\A s \in Sessions :
       /\ (req'[s] # req[s] /\ req'[s].route \in PlaylistRoutes
              /\ req'[s].outcome # "401")
            => session' = session
       /\ session'[s] # session[s]
            => /\ req'[s] # req[s]
               /\ req'[s].route \in {"/login", "/callback"}
               /\ session'[OtherSession(s)] = session[OtherSession(s)]]_vars

C24_Witness ==
  \E s \in Sessions :
    /\ req[s].route \in PlaylistRoutes /\ req[s].pc = "done"
    /\ req[s].outcome = "500"
    /\ Truthy(session[s].accessToken) /\ Truthy(session[s].codeVerifier)
    /\ session[s].accessToken = req[s].preToken
    /\ Truthy(session[OtherSession(s)].accessToken)
    /\ session[OtherSession(s)].accessToken # session[s].accessToken
    /\ session[OtherSession(s)].codeVerifier # session[s].codeVerifier

\* C25: GET /login changes the requesting session's codeVerifier and nothing
\* else.  The verifier stored afterwards is the one just generated, whose
\* challenge the redirect carries, whatever was stored before; the
\* session's accessToken, the other sessions and the process-wide token are
\* as before.
C25_LoginFrame ==
  [][\A s \in Sessions :
       (req'[s] # req[s] /\ req'[s].route = "/login")
         => /\ session'[s].accessToken = session[s].accessToken
            /\ Truthy(session'[s].codeVerifier)
            /\ req'[s].res.code_challenge = generateCodeChallenge(session'[s].codeVerifier)
            /\ session'[OtherSession(s)] = session[OtherSession(s)]
            /\ spotifyToken' = spotifyToken]_vars

C25_Witness ==
  \E s \in Sessions :
    /\ req[s].route = "/login" /\ req[s].pc = "done"
    /\ Truthy(req[s].preToken)
    /\ session[s].accessToken = req[s].preToken
    /\ req[s].res.code_challenge = generateCodeChallenge(session[s].codeVerifier)
    /\ Truthy(session[OtherSession(s)].codeVerifier)
    /\ session[OtherSession(s)].codeVerifier # session[s].codeVerifier

====
